---- MODULE Spec2Model ----
(***************************************************************************)
(* Model of the conjunction-data validator's rule engine                   *)
(* (src/validator/validation.py, rules.py, models.py).                     *)
(*                                                                         *)
(* validate_message is a pure function from (message, rules) to a report.  *)
(* It is modelled as one run of the function: Init draws the message and   *)
(* the rules, and one action per commented section of validate_message     *)
(* appends that section's findings; the last action builds the report.     *)
(*                                                                         *)
(* Numbers.  Python floats are modelled by exact arithmetic on a grid:     *)
(*   - message quantities (metres, m/s, seconds, m^2) are integers;        *)
(*   - the ConsistencyRules thresholds are counted in tenths (Tenth), so   *)
(*     that the defaults 5.0, 0.10 and 0.2 are exact; comparisons against  *)
(*     them are cross-multiplied by Tenth;                                 *)
(*   - Csym = 0.5*(C + C.T) is kept doubled (CsymTwice), its diagonal is   *)
(*     halved exactly;                                                     *)
(*   - vectors and variances are drawn from sets on which the square       *)
(*     roots taken by the code are exact (Sqrt fails otherwise).           *)
(* Rounding, NaN and infinities are outside the model.                     *)
(***************************************************************************)
EXTENDS Integers, Sequences, FiniteSets, TLC

VARIABLES msg, rules_arg, rules, findings, report, pc

vars == <<msg, rules_arg, rules, findings, report, pc>>

----------------------------------------------------------------------------
(* Optional[T]: None is the empty sequence, a present value x is <<x>>.     *)
None == << >>

Some(x) == <<x>>

Get(o) == o[1]

Abs(x) == IF x < 0 THEN -x ELSE x

Max(a, b) == IF a >= b THEN a ELSE b

(* Exact square root; undefined (TLC stops) off the perfect squares.        *)
Sqrt(n) == CHOOSE r \in 0..n : r * r = n

(* Denominator of the fixed-point ConsistencyRules thresholds.              *)
Tenth == 10

----------------------------------------------------------------------------
(* rules.py: the default thresholds.                                        *)
DefaultWarnLead == 60

DefaultMaxPositionNorm == 80000000

DefaultMaxSpeed == 15000

(* 5.0 m, in tenths *)
DefaultMissAbsTol == 50

(* 0.10, in tenths *)
DefaultMissRelTol == 1

(* 0.2 m/s, in tenths *)
DefaultRelSpeedAbsTol == 2

(* 0.10, in tenths *)
DefaultRelSpeedRelTol == 1

(* symmetry_tol = 1e-6 and psd_eig_tol = -1e-9: on integer matrices of the  *)
(* size modelled here sym_err is an integer and a nonzero eigenvalue of     *)
(* Csym is larger than 1e-6 in magnitude, so both defaults decide exactly   *)
(* as the threshold 0 does.                                                 *)
DefaultSymmetryTol == 0

DefaultPsdEigTol == 0

DefaultStdWarn == 100000

DefaultStdFail == 10000000

TimeRules == [warn_if_lead_time_s_below |-> DefaultWarnLead]

StateRules ==
    [max_position_norm_m_warn |-> DefaultMaxPositionNorm,
     max_speed_mps_warn |-> DefaultMaxSpeed]

ConsistencyRules ==
    [miss_distance_abs_tol_m |-> DefaultMissAbsTol,
     miss_distance_rel_tol_frac |-> DefaultMissRelTol,
     rel_speed_abs_tol_mps |-> DefaultRelSpeedAbsTol,
     rel_speed_rel_tol_frac |-> DefaultRelSpeedRelTol]

CovarianceRules ==
    [symmetry_tol |-> DefaultSymmetryTol,
     psd_eig_tol |-> DefaultPsdEigTol,
     std_warn_m |-> DefaultStdWarn,
     std_fail_m |-> DefaultStdFail]

Rules ==
    [time |-> TimeRules, state |-> StateRules,
     consistency |-> ConsistencyRules, covariance |-> CovarianceRules]

----------------------------------------------------------------------------
(* validation.py helpers.                                                   *)
Finding(check_id, severity, message, details) ==
    [check_id |-> check_id, severity |-> severity,
     message |-> message, details |-> details]

(* _add appends one Finding to the list.                                    *)
_add(fs, check_id, severity, message, details) ==
    Append(fs, Finding(check_id, severity, message, details))

_norm3(v) == Sqrt(v[1] * v[1] + v[2] * v[2] + v[3] * v[3])

(* reshape((3, 3)) of the flat list, row-major.                             *)
_cov3x3(flat9) ==
    <<<<flat9[1], flat9[2], flat9[3]>>,
      <<flat9[4], flat9[5], flat9[6]>>,
      <<flat9[7], flat9[8], flat9[9]>>>>

VecSub(a, b) == <<a[1] - b[1], a[2] - b[2], a[3] - b[3]>>

Transpose(C) ==
    <<<<C[1][1], C[2][1], C[3][1]>>,
      <<C[1][2], C[2][2], C[3][2]>>,
      <<C[1][3], C[2][3], C[3][3]>>>>

SetMax(S) == CHOOSE x \in S : \A y \in S : y <= x

(* float(np.max(np.abs(C - C.T)))                                           *)
SymErr(C) ==
    LET CT == Transpose(C)
    IN SetMax({Abs(C[i][j] - CT[i][j]) : i \in 1..3, j \in 1..3})

(* 2 * Csym = C + C.T                                                       *)
CsymTwice(C) ==
    LET CT == Transpose(C)
    IN <<<<C[1][1] + CT[1][1], C[1][2] + CT[1][2], C[1][3] + CT[1][3]>>,
         <<C[2][1] + CT[2][1], C[2][2] + CT[2][2], C[2][3] + CT[2][3]>>,
         <<C[3][1] + CT[3][1], C[3][2] + CT[3][2], C[3][3] + CT[3][3]>>>>

(* np.diag(Csym)                                                            *)
Diag(C) ==
    LET Csym2 == CsymTwice(C)
    IN <<Csym2[1][1] \div 2, Csym2[2][2] \div 2, Csym2[3][3] \div 2>>

Det2(A, i, j) == A[i][i] * A[j][j] - A[i][j] * A[j][i]

Det3(A) ==
      A[1][1] * (A[2][2] * A[3][3] - A[2][3] * A[3][2])
    - A[1][2] * (A[2][1] * A[3][3] - A[2][3] * A[3][1])
    + A[1][3] * (A[2][1] * A[3][2] - A[2][2] * A[3][1])

(* A symmetric matrix is positive semi-definite iff all its principal       *)
(* minors are non-negative.                                                 *)
IsPSD(A) ==
    /\ \A i \in 1..3 : A[i][i] >= 0
    /\ Det2(A, 1, 2) >= 0 /\ Det2(A, 1, 3) >= 0 /\ Det2(A, 2, 3) >= 0
    /\ Det3(A) >= 0

(* min(eigvalsh(Csym)) < tol, decided exactly: the least eigenvalue of Csym *)
(* is below tol iff Csym - tol*I, i.e. 2*Csym - 2*tol*I, is not PSD.        *)
MinEigBelow(C, tol) ==
    LET Csym2 == CsymTwice(C)
        A == <<<<Csym2[1][1] - 2 * tol, Csym2[1][2], Csym2[1][3]>>,
               <<Csym2[2][1], Csym2[2][2] - 2 * tol, Csym2[2][3]>>,
               <<Csym2[3][1], Csym2[3][2], Csym2[3][3] - 2 * tol>>>>
    IN ~IsPSD(A)

----------------------------------------------------------------------------
(* validate_message, section by section.  Each operator takes the findings  *)
(* list so far and returns it with the section's findings appended.         *)

(* --- Basic identity checks --- *)
CheckIdentity(fs, m) ==
    IF m.primary.object_id = m.secondary.object_id
    THEN _add(fs, "ID_DISTINCT", "FAIL",
              "Primary and secondary object_id are identical.", None)
    ELSE _add(fs, "ID_DISTINCT", "PASS",
              "Primary and secondary object_id are distinct.", None)

(* --- Time consistency --- *)
(* Mutation: equal times are let through.                                   *)
TimeOrderViolated_Strict(m) == m.creation_time_utc > m.tca_utc

TimeOrderViolated(m) == m.creation_time_utc >= m.tca_utc

LeadTimeSmall(lead_s, r) == lead_s < r.time.warn_if_lead_time_s_below

CheckTime(fs, m, r) ==
    IF TimeOrderViolated(m)
    THEN _add(fs, "TIME_ORDER", "FAIL",
              "creation_time_utc is not before tca_utc.",
              [creation_time_utc |-> m.creation_time_utc,
               tca_utc |-> m.tca_utc])
    ELSE LET lead_s == m.tca_utc - m.creation_time_utc
         IN IF LeadTimeSmall(lead_s, r)
            THEN _add(fs, "LEAD_TIME", "WARN",
                      "Very small lead time between creation and TCA.",
                      [lead_time_s |-> lead_s])
            ELSE _add(fs, "LEAD_TIME", "PASS",
                      "Lead time between creation and TCA is within expectations.",
                      [lead_time_s |-> lead_s])

(* --- Frame consistency --- *)
CheckFrame(fs, m) ==
    IF m.primary.frame # m.secondary.frame
    THEN _add(fs, "FRAME_MATCH", "WARN",
              "Primary and secondary frames differ (review needed).",
              [primary_frame |-> m.primary.frame,
               secondary_frame |-> m.secondary.frame])
    ELSE _add(fs, "FRAME_MATCH", "PASS",
              "Primary and secondary frames match.",
              [frame |-> m.primary.frame])

(* --- State plausibility --- *)
CheckPosNorm(fs, m, r) ==
    LET p_r == _norm3(m.primary.position_m)
        s_r == _norm3(m.secondary.position_m)
    IN IF p_r > r.state.max_position_norm_m_warn
          \/ s_r > r.state.max_position_norm_m_warn
       THEN _add(fs, "POS_NORM", "WARN",
                 "Large position norm detected (check units/reference).",
                 [primary_r_m |-> p_r, secondary_r_m |-> s_r])
       ELSE _add(fs, "POS_NORM", "PASS", "Position norms look reasonable.",
                 [primary_r_m |-> p_r, secondary_r_m |-> s_r])

CheckSpeedNorm(fs, m, r) ==
    LET p_v == _norm3(m.primary.velocity_mps)
        s_v == _norm3(m.secondary.velocity_mps)
    IN IF p_v > r.state.max_speed_mps_warn
          \/ s_v > r.state.max_speed_mps_warn
       THEN _add(fs, "SPEED_NORM", "WARN",
                 "Large speed detected (check units/reference).",
                 [primary_v_mps |-> p_v, secondary_v_mps |-> s_v])
       ELSE _add(fs, "SPEED_NORM", "PASS", "Speed norms look reasonable.",
                 [primary_v_mps |-> p_v, secondary_v_mps |-> s_v])

(* Mutation: the speed check runs before the position check.               *)
CheckState_Swapped(fs, m, r) == CheckPosNorm(CheckSpeedNorm(fs, m, r), m, r)

CheckState(fs, m, r) == CheckSpeedNorm(CheckPosNorm(fs, m, r), m, r)

(* --- Consistency: miss distance & relative speed --- *)
(* Mutation: the primary position is not subtracted.                        *)
MissEst_SecondaryOnly(m) == _norm3(m.secondary.position_m)

MissEst(m) == _norm3(VecSub(m.secondary.position_m, m.primary.position_m))

RelSpeedEst(m) == _norm3(VecSub(m.secondary.velocity_mps, m.primary.velocity_mps))

(* max(abs_tol, rel_tol_frac * est), in tenths.                             *)
Tolerance(abs_tol, rel_tol_frac, est) == Max(abs_tol, rel_tol_frac * est)

(* Mutation: the comparison is closed on the failing side.                  *)
Breach_Closed(abs_err, tol) == abs_err * Tenth >= tol

(* abs_err > tol, with abs_err in units and tol in tenths.                  *)
Breach(abs_err, tol) == abs_err * Tenth > tol

(* Mutation: presence tested by truthiness, so a reported 0.0 counts as     *)
(* absent.                                                                  *)
CheckMissDistance_Truthy(fs, m, r) ==
    IF m.miss_distance_m # None /\ Get(m.miss_distance_m) # 0
    THEN LET miss_est == _norm3(VecSub(m.secondary.position_m, m.primary.position_m))
             abs_err == Abs(Get(m.miss_distance_m) - miss_est)
             tol == Max(r.consistency.miss_distance_abs_tol_m,
                        r.consistency.miss_distance_rel_tol_frac * miss_est)
         IN IF abs_err * Tenth > tol
            THEN _add(fs, "MISS_DISTANCE_CONSISTENCY", "FAIL",
                      "miss_distance_m inconsistent with relative position norm.",
                      [miss_distance_m |-> Get(m.miss_distance_m),
                       estimated_m |-> miss_est, abs_err_m |-> abs_err,
                       tolerance_m |-> tol])
            ELSE _add(fs, "MISS_DISTANCE_CONSISTENCY", "PASS",
                      "miss_distance_m consistent with relative position norm.",
                      [abs_err_m |-> abs_err, tolerance_m |-> tol])
    ELSE _add(fs, "MISS_DISTANCE_PRESENT", "WARN",
              "miss_distance_m not provided (cannot cross-check).", None)

(* rel_err = abs_err / max(est, 1e-9) is a diagnostic of the failing branch *)
(* only and has no exact value on the grid (est may be 0); the details      *)
(* keep the other entries.                                                  *)
CheckMissDistance(fs, m, r) ==
    IF m.miss_distance_m # None
    THEN LET miss_est == MissEst(m)
             abs_err == Abs(Get(m.miss_distance_m) - miss_est)
             tol == Tolerance(r.consistency.miss_distance_abs_tol_m,
                              r.consistency.miss_distance_rel_tol_frac, miss_est)
         IN IF Breach(abs_err, tol)
            THEN _add(fs, "MISS_DISTANCE_CONSISTENCY", "FAIL",
                      "miss_distance_m inconsistent with relative position norm.",
                      [miss_distance_m |-> Get(m.miss_distance_m),
                       estimated_m |-> miss_est, abs_err_m |-> abs_err,
                       tolerance_m |-> tol])
            ELSE _add(fs, "MISS_DISTANCE_CONSISTENCY", "PASS",
                      "miss_distance_m consistent with relative position norm.",
                      [abs_err_m |-> abs_err, tolerance_m |-> tol])
    ELSE _add(fs, "MISS_DISTANCE_PRESENT", "WARN",
              "miss_distance_m not provided (cannot cross-check).", None)

(* Mutation: a relative-speed breach is a FAIL, as for the miss distance.   *)
CheckRelSpeed_Fail(fs, m, r) ==
    IF m.relative_speed_mps # None
    THEN LET rel_speed_est == _norm3(VecSub(m.secondary.velocity_mps, m.primary.velocity_mps))
             abs_err == Abs(Get(m.relative_speed_mps) - rel_speed_est)
             tol == Max(r.consistency.rel_speed_abs_tol_mps,
                        r.consistency.rel_speed_rel_tol_frac * rel_speed_est)
         IN IF abs_err * Tenth > tol
            THEN _add(fs, "REL_SPEED_CONSISTENCY", "FAIL",
                      "relative_speed_mps differs from norm of relative velocity (review).",
                      [relative_speed_mps |-> Get(m.relative_speed_mps),
                       estimated_mps |-> rel_speed_est, abs_err_mps |-> abs_err,
                       tolerance_mps |-> tol])
            ELSE _add(fs, "REL_SPEED_CONSISTENCY", "PASS",
                      "relative_speed_mps consistent with relative velocity norm.",
                      [abs_err_mps |-> abs_err, tolerance_mps |-> tol])
    ELSE _add(fs, "REL_SPEED_PRESENT", "WARN",
              "relative_speed_mps not provided (cannot cross-check).", None)

CheckRelSpeed(fs, m, r) ==
    IF m.relative_speed_mps # None
    THEN LET rel_speed_est == RelSpeedEst(m)
             abs_err == Abs(Get(m.relative_speed_mps) - rel_speed_est)
             tol == Tolerance(r.consistency.rel_speed_abs_tol_mps,
                              r.consistency.rel_speed_rel_tol_frac, rel_speed_est)
         IN IF Breach(abs_err, tol)
            THEN _add(fs, "REL_SPEED_CONSISTENCY", "WARN",
                      "relative_speed_mps differs from norm of relative velocity (review).",
                      [relative_speed_mps |-> Get(m.relative_speed_mps),
                       estimated_mps |-> rel_speed_est, abs_err_mps |-> abs_err,
                       tolerance_mps |-> tol])
            ELSE _add(fs, "REL_SPEED_CONSISTENCY", "PASS",
                      "relative_speed_mps consistent with relative velocity norm.",
                      [abs_err_mps |-> abs_err, tolerance_mps |-> tol])
    ELSE _add(fs, "REL_SPEED_PRESENT", "WARN",
              "relative_speed_mps not provided (cannot cross-check).", None)

CheckConsistency(fs, m, r) == CheckRelSpeed(CheckMissDistance(fs, m, r), m, r)

(* --- Covariance sanity (optional) --- *)
(* Mutation: a symmetry error equal to the tolerance fails.                 *)
CheckCovSymmetry_Closed(fs, C, r) ==
    LET sym_err == SymErr(C)
    IN IF sym_err >= r.covariance.symmetry_tol
       THEN _add(fs, "COV_SYMMETRY", "FAIL",
                 "Covariance is not symmetric within tolerance.",
                 [max_abs_C_minus_CT |-> sym_err])
       ELSE _add(fs, "COV_SYMMETRY", "PASS", "Covariance symmetry OK.",
                 [max_abs_C_minus_CT |-> sym_err])

CheckCovSymmetry(fs, C, r) ==
    LET sym_err == SymErr(C)
    IN IF sym_err > r.covariance.symmetry_tol
       THEN _add(fs, "COV_SYMMETRY", "FAIL",
                 "Covariance is not symmetric within tolerance.",
                 [max_abs_C_minus_CT |-> sym_err])
       ELSE _add(fs, "COV_SYMMETRY", "PASS", "Covariance symmetry OK.",
                 [max_abs_C_minus_CT |-> sym_err])

(* The eigenvalue itself is irrational in general; the details record is    *)
(* left out and only the comparison is modelled.                            *)
CheckCovPsd(fs, C, r) ==
    IF MinEigBelow(C, r.covariance.psd_eig_tol)
    THEN _add(fs, "COV_PSD", "FAIL",
              "Covariance not positive semi-definite (eigenvalue too negative).",
              None)
    ELSE _add(fs, "COV_PSD", "PASS", "Covariance PSD check OK.", None)

(* Mutation: a zero variance counts as negative.                            *)
AnyNegative_OrZero(diag) == \E i \in 1..3 : diag[i] <= 0

(* np.any(diag < 0)                                                         *)
AnyNegative(diag) == \E i \in 1..3 : diag[i] < 0

CheckCovStd(fs, C, r) ==
    LET diag == Diag(C)
    IN IF AnyNegative(diag)
       THEN _add(fs, "COV_DIAG", "FAIL",
                 "Covariance diagonal contains negative values.",
                 [diag |-> diag])
       ELSE LET std == <<Sqrt(diag[1]), Sqrt(diag[2]), Sqrt(diag[3])>>
                max_std == SetMax({std[i] : i \in 1..3})
            IN IF max_std > r.covariance.std_fail_m
               THEN _add(fs, "COV_STD", "FAIL",
                         "Covariance std is extremely large (units/reference likely wrong).",
                         [max_std_m |-> max_std])
               ELSE IF max_std > r.covariance.std_warn_m
               THEN _add(fs, "COV_STD", "WARN",
                         "Covariance std is large (review).",
                         [max_std_m |-> max_std])
               ELSE _add(fs, "COV_STD", "PASS",
                         "Covariance std magnitudes look reasonable.",
                         [max_std_m |-> max_std])

CheckCovariance(fs, m, r) ==
    IF m.rel_pos_cov_m2 = None
    THEN _add(fs, "COV_PRESENT", "WARN",
              "rel_pos_cov_m2 not provided (cannot assess uncertainty validity).",
              None)
    ELSE LET C == _cov3x3(Get(m.rel_pos_cov_m2))
         IN CheckCovStd(CheckCovPsd(CheckCovSymmetry(fs, C, r), C, r), C, r)

(* --- Summary --- *)
Severities == {"PASS", "WARN", "FAIL"}

RECURSIVE Tally(_, _)
(* counts = {"PASS": 0, "WARN": 0, "FAIL": 0}; for f in findings: += 1      *)
Tally(fs, counts) ==
    IF fs = << >> THEN counts
    ELSE Tally(Tail(fs),
               [counts EXCEPT ![Head(fs).severity] = counts[Head(fs).severity] + 1])

Counts(fs) == Tally(fs, [s \in Severities |-> 0])

(* str.lower on the three severity names.                                   *)
Lower(s) ==
    CASE s = "PASS" -> "pass" [] s = "WARN" -> "warn" [] s = "FAIL" -> "fail"

(* Mutation: severities that never occurred get no key.                     *)
Summary_NonZeroOnly(counts) ==
    [k \in {Lower(s) : s \in {t \in DOMAIN counts : counts[t] > 0}} |->
        counts[CHOOSE s \in DOMAIN counts : Lower(s) = k]]

(* {k.lower(): v for k, v in counts.items()}                                *)
Summary(counts) ==
    [k \in {Lower(s) : s \in DOMAIN counts} |->
        counts[CHOOSE s \in DOMAIN counts : Lower(s) = k]]

(* Mutation: warnings count against the verdict too.                        *)
Ok_NoWarnings(counts) == counts["FAIL"] = 0 /\ counts["WARN"] = 0

Ok(counts) == counts["FAIL"] = 0

ValidationReport(m, fs) ==
    [message_id |-> m.message_id,
     creation_time_utc |-> m.creation_time_utc,
     tca_utc |-> m.tca_utc,
     findings |-> fs,
     summary |-> Summary(Counts(fs)),
     ok |-> Ok(Counts(fs))]

(* The sections in execution order, from an empty findings list.            *)
RunChecks(m, r) ==
    CheckCovariance(CheckConsistency(CheckState(CheckFrame(
        CheckTime(CheckIdentity(<< >>, m), m, r), m), m, r), m, r), m, r)

(* The whole function, for comparing two evaluations.                       *)
validate_message(m, r) == ValidationReport(m, RunChecks(m, r))

----------------------------------------------------------------------------
(* Inputs.  models.py: ConjunctionMessage and ObjectState.                  *)

(* Largest multiplier of the position and velocity vectors.                 *)
MaxK == 2

(* Largest reported miss distance and relative speed.                       *)
MaxMiss == 9

(* Largest per-axis standard deviation of the covariance.                   *)
MaxStd == 2

Ids == {"SAT-A", "SAT-B"}

Frames == {"EME2000", "ITRF", "TEME"}

(* Collinear vectors of norm 3|k|: every norm and every norm of a           *)
(* difference is an integer.                                                *)
Vec(k) == <<k, 2 * k, 2 * k>>

ObjectState(id, k, kv, frame) ==
    [object_id |-> id, position_m |-> Vec(k), velocity_mps |-> Vec(kv),
     frame |-> frame]

ConjunctionMessage(creation, tca, primary, secondary, miss, speed, cov) ==
    [message_id |-> "CDM-1", creation_time_utc |-> creation, tca_utc |-> tca,
     primary |-> primary, secondary |-> secondary,
     miss_distance_m |-> miss, relative_speed_mps |-> speed,
     rel_pos_cov_m2 |-> cov]

(* Flattened row-major 3x3 matrix.                                          *)
Cov(d1, d2, d3, c12, c21, c13, c31, c23, c32) ==
    <<d1, c12, c13, c21, d2, c23, c31, c32, d3>>

(* Variances: -1 and the squares of 0..MaxStd.                              *)
DiagVals == {-1} \cup {k * k : k \in 0..MaxStd}

(* Optional[float] with ge=0.                                               *)
OptValues(S) == {None} \cup {Some(v) : v \in S}

RulesWith(t, s, c, v) == [time |-> t, state |-> s, consistency |-> c, covariance |-> v]

(* Thresholds small enough for every branch to be taken on the grid.        *)
TightRules ==
    RulesWith([warn_if_lead_time_s_below |-> 100],
              [max_position_norm_m_warn |-> 3, max_speed_mps_warn |-> 0],
              [miss_distance_abs_tol_m |-> 0, miss_distance_rel_tol_frac |-> 0,
               rel_speed_abs_tol_mps |-> 0, rel_speed_rel_tol_frac |-> 0],
              [symmetry_tol |-> 0, psd_eig_tol |-> 0,
               std_warn_m |-> 0, std_fail_m |-> 1])

(* A message on which every check passes under the default rules.           *)
BasePrimary == ObjectState("SAT-A", 1, 0, "TEME")

BaseSecondary == ObjectState("SAT-B", 2, 1, "TEME")

BaseCov == Some(Cov(1, 1, 1, 0, 0, 0, 0, 0, 0))

(* Every check takes each of its outcomes, under the default rules (no      *)
(* rules given) and under the tight ones.                                   *)
GeneralInputs ==
    \E tca \in {60, 90, 7260}, sid \in Ids, k \in {1, 2}, kv \in {0, 1},
        sf \in {"TEME", "ITRF"},
        miss \in {None, Some(0), Some(MaxMiss)},
        speed \in {None, Some(0), Some(3)},
        cov \in {None, BaseCov,
                 Some(Cov(1, 1, 1, 1, 0, 0, 0, 0, 0)),
                 Some(Cov(-1, 1, 1, 0, 0, 0, 0, 0, 0)),
                 Some(Cov(1, 1, 1, 2, 2, 0, 0, 0, 0)),
                 Some(Cov(MaxStd * MaxStd, 1, 0, 0, 0, 0, 0, 0, 0))},
        ra \in {None, Some(TightRules)} :
        /\ msg = ConjunctionMessage(60, tca,
            ObjectState("SAT-A", 1, 0, "TEME"),
            ObjectState(sid, k, kv, sf), miss, speed, cov)
        /\ rules_arg = ra

(* Identity, time and frame checks.                                         *)
HeaderInputs ==
    \E creation \in {0, 60}, tca \in {0, 30, 60, 100, 120, 7260},
        pid \in Ids, sid \in Ids, pf \in Frames, sf \in Frames,
        w \in {-1, DefaultWarnLead, 100} :
        /\ msg = ConjunctionMessage(creation, tca,
            ObjectState(pid, 1, 0, pf), ObjectState(sid, 2, 1, sf),
            Some(3), Some(3), BaseCov)
        /\ rules_arg = Some(RulesWith([warn_if_lead_time_s_below |-> w],
                       StateRules, ConsistencyRules, CovarianceRules))

(* Position and speed norms.                                                *)
StateInputs ==
    \E k1 \in -MaxK..MaxK, k2 \in -MaxK..MaxK, kv1 \in 0..1, kv2 \in 0..1,
        pw \in {-1, 3, 6, DefaultMaxPositionNorm},
        sw \in {0, 3, DefaultMaxSpeed} :
        /\ msg = ConjunctionMessage(60, 7260,
            ObjectState("SAT-A", k1, kv1, "TEME"),
            ObjectState("SAT-B", k2, kv2, "TEME"), None, None, None)
        /\ rules_arg = Some(RulesWith(TimeRules,
                       [max_position_norm_m_warn |-> pw, max_speed_mps_warn |-> sw],
                       ConsistencyRules, CovarianceRules))

(* Miss distance against the relative position.                             *)
MissInputs ==
    \E k1 \in 0..MaxK, k2 \in 0..MaxK, miss \in OptValues(0..MaxMiss),
        at \in {0, 10, DefaultMissAbsTol}, rt \in {0, DefaultMissRelTol, 5} :
        /\ msg = ConjunctionMessage(60, 7260,
            ObjectState("SAT-A", k1, 0, "TEME"),
            ObjectState("SAT-B", k2, 1, "TEME"), miss, Some(3), None)
        /\ rules_arg = Some(RulesWith(TimeRules, StateRules,
                       [miss_distance_abs_tol_m |-> at,
                        miss_distance_rel_tol_frac |-> rt,
                        rel_speed_abs_tol_mps |-> DefaultRelSpeedAbsTol,
                        rel_speed_rel_tol_frac |-> DefaultRelSpeedRelTol],
                       CovarianceRules))

(* Relative speed against the relative velocity.                            *)
RelSpeedInputs ==
    \E kv1 \in 0..MaxK, kv2 \in 0..MaxK, speed \in OptValues(0..MaxMiss),
        at \in {0, DefaultRelSpeedAbsTol, 10}, rt \in {0, DefaultRelSpeedRelTol, 5} :
        /\ msg = ConjunctionMessage(60, 7260,
            ObjectState("SAT-A", 1, kv1, "TEME"),
            ObjectState("SAT-B", 2, kv2, "TEME"), Some(3), speed, None)
        /\ rules_arg = Some(RulesWith(TimeRules, StateRules,
                       [miss_distance_abs_tol_m |-> DefaultMissAbsTol,
                        miss_distance_rel_tol_frac |-> DefaultMissRelTol,
                        rel_speed_abs_tol_mps |-> at,
                        rel_speed_rel_tol_frac |-> rt],
                       CovarianceRules))

(* Covariance matrices.                                                     *)
CovInputs ==
    \E d1 \in DiagVals, d2 \in DiagVals,
        c12 \in -1..1, c21 \in -1..1, c23 \in 0..1,
        st \in {-1, DefaultSymmetryTol, 1}, pt \in {-1, DefaultPsdEigTol},
        sw \in {1, DefaultStdWarn}, sf \in {1, DefaultStdFail} :
        /\ msg = ConjunctionMessage(60, 7260, BasePrimary, BaseSecondary,
            Some(3), Some(3),
            Some(Cov(d1, d2, 1, c12, c21, 0, 0, c23, 0)))
        /\ rules_arg = Some(RulesWith(TimeRules, StateRules, ConsistencyRules,
                       [symmetry_tol |-> st, psd_eig_tol |-> pt,
                        std_warn_m |-> sw, std_fail_m |-> sf]))

Inputs ==
    \/ GeneralInputs
    \/ HeaderInputs
    \/ StateInputs
    \/ MissInputs
    \/ RelSpeedInputs
    \/ CovInputs

----------------------------------------------------------------------------
(* One call validate_message(msg, rules_arg).                               *)
Init ==
    /\ Inputs
    /\ rules = None
    /\ findings = << >>
    /\ report = None
    /\ pc = "start"

(* rules = rules or Rules(); findings = []                                  *)
Start ==
    /\ pc = "start"
    /\ rules' = IF rules_arg = None THEN Rules ELSE Get(rules_arg)
    /\ findings' = << >>
    /\ pc' = "identity"
    /\ UNCHANGED <<msg, rules_arg, report>>

IdentityStep ==
    /\ pc = "identity"
    /\ findings' = CheckIdentity(findings, msg)
    /\ pc' = "time"
    /\ UNCHANGED <<msg, rules_arg, rules, report>>

TimeStep ==
    /\ pc = "time"
    /\ findings' = CheckTime(findings, msg, rules)
    /\ pc' = "frame"
    /\ UNCHANGED <<msg, rules_arg, rules, report>>

FrameStep ==
    /\ pc = "frame"
    /\ findings' = CheckFrame(findings, msg)
    /\ pc' = "state"
    /\ UNCHANGED <<msg, rules_arg, rules, report>>

StateStep ==
    /\ pc = "state"
    /\ findings' = CheckState(findings, msg, rules)
    /\ pc' = "consistency"
    /\ UNCHANGED <<msg, rules_arg, rules, report>>

ConsistencyStep ==
    /\ pc = "consistency"
    /\ findings' = CheckConsistency(findings, msg, rules)
    /\ pc' = "covariance"
    /\ UNCHANGED <<msg, rules_arg, rules, report>>

CovarianceStep ==
    /\ pc = "covariance"
    /\ findings' = CheckCovariance(findings, msg, rules)
    /\ pc' = "summary"
    /\ UNCHANGED <<msg, rules_arg, rules, report>>

SummaryStep ==
    /\ pc = "summary"
    /\ report' = ValidationReport(msg, findings)
    /\ pc' = "done"
    /\ UNCHANGED <<msg, rules_arg, rules, findings>>

Next ==
    \/ Start
    \/ IdentityStep
    \/ TimeStep
    \/ FrameStep
    \/ StateStep
    \/ ConsistencyStep
    \/ CovarianceStep
    \/ SummaryStep

Spec == Init /\ [][Next]_vars

(* The runs on the general inputs only, where every check takes each of its *)
(* outcomes.                                                                *)
InitGeneral ==
    /\ GeneralInputs
    /\ rules = None
    /\ findings = << >>
    /\ report = None
    /\ pc = "start"

SpecGeneral == InitGeneral /\ [][Next]_vars

----------------------------------------------------------------------------
(* Properties of the returned report.                                       *)
Done == pc = "done"

Where(fs, id) == {i \in DOMAIN fs : fs[i].check_id = id}

Has(fs, id) == Where(fs, id) # {}

HasWith(fs, id, sev) == \E i \in Where(fs, id) : fs[i].severity = sev

NumSev(fs, sev) == Cardinality({i \in DOMAIN fs : fs[i].severity = sev})

(* C1: the report's ok is true exactly when no finding has severity FAIL,   *)
(* and ok equals (summary["fail"] = 0).                                     *)
C1_VerdictConsistency ==
    Done =>
        /\ report.ok = (\A i \in DOMAIN report.findings :
                            report.findings[i].severity # "FAIL")
        /\ report.ok = (report.summary["fail"] = 0)

C1_Witness ==
    /\ Done
    /\ ~report.ok
    /\ report.summary["fail"] >= 2
    /\ report.summary["warn"] >= 1

(* C2: the summary has exactly the keys pass, warn and fail, each count is  *)
(* the number of findings of that severity, and the counts add up to the    *)
(* number of findings.                                                      *)
C2_SummaryConservation ==
    Done =>
        /\ DOMAIN report.summary = {"pass", "warn", "fail"}
        /\ report.summary["pass"] = NumSev(report.findings, "PASS")
        /\ report.summary["warn"] = NumSev(report.findings, "WARN")
        /\ report.summary["fail"] = NumSev(report.findings, "FAIL")
        /\ report.summary["pass"] + report.summary["warn"] + report.summary["fail"]
               = Len(report.findings)

C2_Witness ==
    /\ Done
    /\ report.summary["warn"] = 0
    /\ report.summary["fail"] = 0
    /\ report.summary["pass"] = 10

(* Presence gating of one optional field: when absent, none of its checks   *)
(* and exactly one WARN presence finding; when present, no presence finding.*)
Gated(fs, field, checks, presence) ==
    IF field = None
    THEN /\ \A c \in checks : ~Has(fs, c)
         /\ Cardinality(Where(fs, presence)) = 1
         /\ HasWith(fs, presence, "WARN")
    ELSE ~Has(fs, presence)

(* C3: presence gating holds for miss_distance_m, relative_speed_mps and    *)
(* rel_pos_cov_m2, each independently of the others.                        *)
C3_PresenceGating ==
    Done =>
        /\ Gated(report.findings, msg.miss_distance_m,
                 {"MISS_DISTANCE_CONSISTENCY"}, "MISS_DISTANCE_PRESENT")
        /\ Gated(report.findings, msg.relative_speed_mps,
                 {"REL_SPEED_CONSISTENCY"}, "REL_SPEED_PRESENT")
        /\ Gated(report.findings, msg.rel_pos_cov_m2,
                 {"COV_SYMMETRY", "COV_PSD", "COV_DIAG", "COV_STD"}, "COV_PRESENT")

C3_Witness ==
    /\ Done
    /\ msg.miss_distance_m = None
    /\ msg.relative_speed_mps = Some(0)
    /\ msg.rel_pos_cov_m2 # None
    /\ Has(report.findings, "MISS_DISTANCE_PRESENT")
    /\ Has(report.findings, "REL_SPEED_CONSISTENCY")

(* Euclidean distance between two vectors.                                  *)
Distance(a, b) ==
    Sqrt((b[1] - a[1]) * (b[1] - a[1]) + (b[2] - a[2]) * (b[2] - a[2])
             + (b[3] - a[3]) * (b[3] - a[3]))

TrueMiss == Distance(msg.primary.position_m, msg.secondary.position_m)

TrueRelSpeed == Distance(msg.primary.velocity_mps, msg.secondary.velocity_mps)

(* The miss-distance error and tolerance, from the message and the rules;   *)
(* the error in metres, the tolerance in tenths of a metre.                 *)
MissAbsErr == Abs(Get(msg.miss_distance_m) - TrueMiss)

MissTol ==
    LET a == rules.consistency.miss_distance_abs_tol_m
        b == rules.consistency.miss_distance_rel_tol_frac * TrueMiss
    IN IF a >= b THEN a ELSE b

(* C4: with miss_distance_m present, MISS_DISTANCE_CONSISTENCY is FAIL iff  *)
(* abs_err > tol and PASS otherwise, so abs_err = tol passes.               *)
C4_MissToleranceBoundary ==
    (Done /\ msg.miss_distance_m # None) =>
        /\ Cardinality(Where(report.findings, "MISS_DISTANCE_CONSISTENCY")) = 1
        /\ \A i \in Where(report.findings, "MISS_DISTANCE_CONSISTENCY") :
               report.findings[i].severity =
                   IF MissAbsErr * Tenth > MissTol THEN "FAIL" ELSE "PASS"

C4_Witness ==
    /\ Done
    /\ msg.miss_distance_m # None
    /\ MissAbsErr > 0
    /\ MissAbsErr * Tenth = MissTol
    /\ HasWith(report.findings, "MISS_DISTANCE_CONSISTENCY", "PASS")

(* The covariance is present and equal to its own transpose.                *)
CovSymmetric ==
    /\ msg.rel_pos_cov_m2 # None
    /\ LET f == Get(msg.rel_pos_cov_m2)
       IN f[2] = f[4] /\ f[3] = f[7] /\ f[6] = f[8]

SymmetryPassesWithZero ==
    /\ Cardinality(Where(report.findings, "COV_SYMMETRY")) = 1
    /\ \A i \in Where(report.findings, "COV_SYMMETRY") :
           /\ report.findings[i].severity = "PASS"
           /\ report.findings[i].details.max_abs_C_minus_CT = 0

(* C5 as stated: a symmetric covariance yields COV_SYMMETRY PASS with       *)
(* symmetry error 0 for every thresholds value.                             *)
C5_SymmetricAlwaysPasses == (Done /\ CovSymmetric) => SymmetryPassesWithZero

(* C5, amended: a symmetric covariance yields COV_SYMMETRY PASS with        *)
(* symmetry error 0 whenever symmetry_tol is not negative.                  *)
C5_SymmetricPassesNonNegTol ==
    (Done /\ CovSymmetric /\ rules.covariance.symmetry_tol >= 0) =>
        SymmetryPassesWithZero

C5_Witness ==
    /\ Done
    /\ CovSymmetric
    /\ Get(msg.rel_pos_cov_m2)[2] # 0
    /\ Get(msg.rel_pos_cov_m2)[1] # Get(msg.rel_pos_cov_m2)[9]
    /\ rules.covariance.symmetry_tol = 0
    /\ HasWith(report.findings, "COV_SYMMETRY", "PASS")

TimeIds == {"TIME_ORDER", "LEAD_TIME"}

TimeFindings == {i \in DOMAIN report.findings : report.findings[i].check_id \in TimeIds}

(* C6: creation_time_utc >= tca_utc gives TIME_ORDER FAIL and ok false;     *)
(* otherwise the time check emits one finding, WARN when the lead time is   *)
(* strictly below the threshold and PASS otherwise, carrying the lead time. *)
C6_TimeOrder ==
    Done =>
        IF msg.creation_time_utc >= msg.tca_utc
        THEN /\ HasWith(report.findings, "TIME_ORDER", "FAIL")
             /\ report.ok = FALSE
        ELSE /\ Cardinality(TimeFindings) = 1
             /\ \A i \in TimeFindings :
                    /\ report.findings[i].severity =
                           IF msg.tca_utc - msg.creation_time_utc
                                  < rules.time.warn_if_lead_time_s_below
                           THEN "WARN" ELSE "PASS"
                    /\ report.findings[i].details.lead_time_s
                           = msg.tca_utc - msg.creation_time_utc

C6_Witness ==
    /\ Done
    /\ msg.creation_time_utc = msg.tca_utc
    /\ HasWith(report.findings, "TIME_ORDER", "FAIL")
    /\ NumSev(report.findings, "FAIL") = 1

(* The diagonal of the symmetrized covariance, read off the flat list (the  *)
(* diagonal of 0.5*(C + C.T) is the diagonal of C).                         *)
CovDiag == {Get(msg.rel_pos_cov_m2)[i] : i \in {1, 5, 9}}

CovMaxStd == Sqrt(SetMax(CovDiag))

(* C7: a negative diagonal entry gives COV_DIAG FAIL, no COV_STD and ok     *)
(* false; otherwise no COV_DIAG and one COV_STD, FAIL above std_fail_m,     *)
(* else WARN above std_warn_m, else PASS.                                   *)
C7_DiagAndStd ==
    (Done /\ msg.rel_pos_cov_m2 # None) =>
        IF \E d \in CovDiag : d < 0
        THEN /\ HasWith(report.findings, "COV_DIAG", "FAIL")
             /\ ~Has(report.findings, "COV_STD")
             /\ report.ok = FALSE
        ELSE /\ ~Has(report.findings, "COV_DIAG")
             /\ Cardinality(Where(report.findings, "COV_STD")) = 1
             /\ \A i \in Where(report.findings, "COV_STD") :
                    report.findings[i].severity =
                        IF CovMaxStd > rules.covariance.std_fail_m THEN "FAIL"
                        ELSE IF CovMaxStd > rules.covariance.std_warn_m THEN "WARN"
                        ELSE "PASS"

C7_Witness ==
    /\ Done
    /\ msg.rel_pos_cov_m2 # None
    /\ Get(msg.rel_pos_cov_m2)[1] >= 0
    /\ Get(msg.rel_pos_cov_m2)[5] < 0
    /\ HasWith(report.findings, "COV_DIAG", "FAIL")
    /\ ~Has(report.findings, "COV_STD")

(* Scenario A as stated: distinct ids, matching frames, creation two hours  *)
(* before TCA, norms within the default limits, miss distance equal to the  *)
(* relative-position norm, no covariance, default thresholds.               *)
ScenarioA ==
    /\ rules = Rules
    /\ msg.primary.object_id # msg.secondary.object_id
    /\ msg.primary.frame = msg.secondary.frame
    /\ msg.tca_utc - msg.creation_time_utc = 7200
    /\ _norm3(msg.primary.position_m) <= DefaultMaxPositionNorm
    /\ _norm3(msg.secondary.position_m) <= DefaultMaxPositionNorm
    /\ _norm3(msg.primary.velocity_mps) <= DefaultMaxSpeed
    /\ _norm3(msg.secondary.velocity_mps) <= DefaultMaxSpeed
    /\ msg.miss_distance_m = Some(TrueMiss)
    /\ msg.rel_pos_cov_m2 = None

ScenarioAReport ==
    /\ report.ok = TRUE
    /\ report.summary["fail"] = 0
    /\ report.summary["warn"] = 1
    /\ HasWith(report.findings, "COV_PRESENT", "WARN")

(* relative_speed_mps is present and within max(0.2, 0.10 * est) of the     *)
(* relative-velocity norm.                                                  *)
RelSpeedConsistent ==
    /\ msg.relative_speed_mps # None
    /\ LET err == Abs(Get(msg.relative_speed_mps) - TrueRelSpeed)
       IN \/ err * Tenth <= DefaultRelSpeedAbsTol
          \/ err * Tenth <= DefaultRelSpeedRelTol * TrueRelSpeed

(* C8 as stated: every scenario-A message has ok true, no FAIL and exactly  *)
(* one WARN, the covariance-absence finding.                                *)
C8_ScenarioA == (Done /\ ScenarioA) => ScenarioAReport

(* C8, amended: the same, for scenario-A messages whose relative_speed_mps  *)
(* is present and consistent with the relative velocity.                    *)
C8_ScenarioAWithRelSpeed ==
    (Done /\ ScenarioA /\ RelSpeedConsistent) => ScenarioAReport

C8_Witness ==
    /\ Done
    /\ ScenarioA
    /\ RelSpeedConsistent
    /\ TrueMiss > 0
    /\ TrueRelSpeed > 0
    /\ report.summary["pass"] = 7

SoftChecks ==
    {"FRAME_MATCH", "POS_NORM", "SPEED_NORM", "REL_SPEED_CONSISTENCY",
     "MISS_DISTANCE_PRESENT", "REL_SPEED_PRESENT", "COV_PRESENT"}

HardChecks ==
    {"ID_DISTINCT", "TIME_ORDER", "MISS_DISTANCE_CONSISTENCY",
     "COV_SYMMETRY", "COV_PSD", "COV_DIAG", "COV_STD"}

(* Variations of the fields and thresholds C9 says cannot move the verdict. *)
SoftMessage(pf, sf, speed) ==
    [msg EXCEPT !.primary.frame = pf, !.secondary.frame = sf,
                !.relative_speed_mps = speed]

SoftRules(s, c) ==
    [rules EXCEPT !.state = s,
                  !.consistency.rel_speed_abs_tol_mps = c.rel_speed_abs_tol_mps,
                  !.consistency.rel_speed_rel_tol_frac = c.rel_speed_rel_tol_frac]

(* C9: the frame, position-norm, speed-norm and relative-speed checks and   *)
(* the absence findings never FAIL; ok is false iff one of the other seven  *)
(* checks is FAIL; changing only the frames, relative_speed_mps or the      *)
(* state / relative-speed thresholds leaves ok unchanged.                   *)
C9_SeverityPolicy ==
    Done =>
        /\ \A c \in SoftChecks : ~HasWith(report.findings, c, "FAIL")
        /\ (report.ok = FALSE) = (\E c \in HardChecks : HasWith(report.findings, c, "FAIL"))
        /\ \A pf \in Frames, sf \in Frames,
              speed \in {None, Some(0), Some(MaxMiss)},
              s \in {StateRules, TightRules.state},
              c \in {ConsistencyRules, TightRules.consistency} :
               \A m \in {SoftMessage(pf, sf, speed)}, r \in {SoftRules(s, c)} :
                   Ok(Counts(RunChecks(m, r))) = report.ok

C9_Witness ==
    /\ Done
    /\ msg.primary.frame # msg.secondary.frame
    /\ HasWith(report.findings, "REL_SPEED_CONSISTENCY", "WARN")
    /\ HasWith(report.findings, "POS_NORM", "WARN")
    /\ HasWith(report.findings, "SPEED_NORM", "WARN")
    /\ report.ok = TRUE

(* The check ids the message calls for, in execution order.                 *)
ExpectedIds ==
    <<"ID_DISTINCT",
      IF msg.creation_time_utc >= msg.tca_utc THEN "TIME_ORDER" ELSE "LEAD_TIME",
      "FRAME_MATCH", "POS_NORM", "SPEED_NORM",
      IF msg.miss_distance_m = None
          THEN "MISS_DISTANCE_PRESENT" ELSE "MISS_DISTANCE_CONSISTENCY",
      IF msg.relative_speed_mps = None
          THEN "REL_SPEED_PRESENT" ELSE "REL_SPEED_CONSISTENCY">>
    \o (IF msg.rel_pos_cov_m2 = None THEN <<"COV_PRESENT">>
        ELSE <<"COV_SYMMETRY", "COV_PSD",
               IF \E d \in CovDiag : d < 0 THEN "COV_DIAG" ELSE "COV_STD">>)

(* Findings present once the section before pc has run.                     *)
Emitted ==
    CASE pc \in {"start", "identity"} -> 0
      [] pc = "time" -> 1
      [] pc = "frame" -> 2
      [] pc = "state" -> 3
      [] pc = "consistency" -> 5
      [] pc = "covariance" -> 7
      [] pc \in {"summary", "done"} -> Len(ExpectedIds)

IdsOf(fs) == [i \in DOMAIN fs |-> fs[i].check_id]

IsPrefix(s, t) == Len(s) <= Len(t) /\ SubSeq(t, 1, Len(s)) = s

FixedShape ==
    /\ IdsOf(findings) = SubSeq(ExpectedIds, 1, Emitted)
    /\ Done =>
        /\ report.findings = findings
        /\ Len(report.findings) = IF msg.rel_pos_cov_m2 = None THEN 8 ELSE 10
        /\ \A i, j \in DOMAIN report.findings :
               report.findings[i].check_id = report.findings[j].check_id => i = j

(* C10: 8 findings without covariance and 10 with it, no check id twice,    *)
(* ids in execution order, and every section only appends to the findings   *)
(* of the sections before it.                                               *)
C10_FixedShape == [](FixedShape) /\ [][IsPrefix(findings, findings')]_vars

C10_Witness ==
    /\ Done
    /\ Len(report.findings) = 10
    /\ Has(report.findings, "TIME_ORDER")
    /\ Has(report.findings, "MISS_DISTANCE_PRESENT")
    /\ Has(report.findings, "COV_DIAG")

====
